---- MODULE Spec2Model ----
(***************************************************************************)
(* Model of the .hip file diff tool: the comparator                        *)
(* (api/hip_file_comparator.py) and the signal wiring of the main window   *)
(* (ui/hip_file_diff_window.py).                                           *)
(*                                                                         *)
(* An ordered mapping (dict / OrderedDict) is a sequence of entries        *)
(* [k |-> key, v |-> value]; list indices passed between the Python        *)
(* functions are 0-based, as in the source.                                *)
(***************************************************************************)
EXTENDS Integers, Sequences, FiniteSets, TLC

VARIABLES
    pc,               \* position of the comparator: "new", "constructed", "raised", "compared", "failed"
    args,             \* arguments of the HipFileComparator(...) call being modelled
    source_hip_file,  \* HipFileComparator.source_hip_file
    target_hip_file,  \* HipFileComparator.target_hip_file
    source_data,      \* HipFileComparator.source_data
    target_data,      \* HipFileComparator.target_data
    diff_data,        \* HipFileComparator.diff_data
    is_compared,      \* HipFileComparator.is_compared
    checked,          \* the check_file_path calls made by __init__, in order
    raised,           \* the exception that ended the last operation, or "none"
    loaded,           \* what get_hip_data returned for the source and the target file
    hip_comparator,   \* HipFileDiffWindow.hip_comparator
    source_model,     \* rows of HipFileDiffWindow.source_model
    target_model,     \* rows of HipFileDiffWindow.target_model
    source_items,     \* source_treeview.item_dictionary
    target_items,     \* target_treeview.item_dictionary
    clicks,           \* Compare clicks handled so far
    last_click,       \* how the last Compare click ended
    held_before,      \* what the window held when the last Compare click began
    checkbox,         \* show_only_edited_checkbox is checked
    show_only_edited, \* show_only_edited of source_model and of target_model
    toggle_calls,     \* the calls the last on_checkbox_toggled made, in order
    expanded,         \* the paths expanded in source_treeview and in target_treeview
    expand_signal,    \* the expanded/collapsed signals emitted and not yet delivered
    expand_chain,     \* sync_expand calls since the last user expand/collapse
    scroll,           \* value and maximum of the two vertical scrollbars
    scroll_signal,    \* the valueChanged signals emitted and not yet delivered
    scroll_chain      \* sync_scroll calls since the last user scroll

comparatorVars ==
    <<pc, args, source_hip_file, target_hip_file, source_data, target_data,
      diff_data, is_compared, checked, raised, loaded>>

clickVars ==
    <<hip_comparator, source_model, target_model, source_items, target_items,
      clicks, last_click, held_before>>

checkboxVars == <<checkbox, show_only_edited, toggle_calls>>

expandVars == <<expanded, expand_signal, expand_chain>>

scrollVars == <<scroll, scroll_signal, scroll_chain>>

windowVars == <<clickVars, checkboxVars, expandVars, scrollVars>>

vars == <<comparatorVars, windowVars>>

-----------------------------------------------------------------------------
(* Bounds and input sets *)

MaxNodes == 2

MaxClicks == 2

MaxScroll == 3

Min(a, b) == IF a < b THEN a ELSE b

Range(s) == {s[i] : i \in 1..Len(s)}

NoneValue == "None"

\* Node paths of the scene graphs that are loaded.
Paths == {"/obj", "/obj/geo1", "/out"}

ParentPath(path) ==
    CASE path = "/obj" -> "/"
      [] path = "/out" -> "/"
      [] path = "/obj/geo1" -> "/obj"
      [] OTHER -> NoneValue

NodeName(path) ==
    CASE path = "/obj" -> "obj"
      [] path = "/out" -> "out"
      [] path = "/obj/geo1" -> "geo1"
      [] OTHER -> "/"

\* Parameter values, as parm.eval() returns them: a typed value.
IntVal(n) == [type |-> "int", v |-> n]
StrVal(s) == [type |-> "str", s |-> s]

\* str(value)
Str(value) == IF value.type = "int" THEN ToString(value.v) ELSE value.s

\* ParamData(name, value, tag)
ParamData(name, value, tag) == [name |-> name, value |-> value, tag |-> tag]

\* The tag a freshly built NodeData carries and the tag get_hip_data gives a parameter.
UnsetTag == "unset"
FalseTag == "False"

\* NodeData(name)
NodeData(name) ==
    [name |-> name, path |-> "", type |-> "", icon |-> "", parent_path |-> "",
     tag |-> UnsetTag, parms |-> <<>>]

-----------------------------------------------------------------------------
(* Ordered mappings *)

Entry(key, value) == [k |-> key, v |-> value]

Keys(d) == [i \in 1..Len(d) |-> d[i].k]

KeySet(d) == {d[i].k : i \in 1..Len(d)}

HasKey(d, key) == key \in KeySet(d)

\* position (1-based) of a key of d
Pos(d, key) == CHOOSE i \in 1..Len(d) : d[i].k = key

\* d[key]
Get(d, key) == d[Pos(d, key)].v

\* d[key].<field> = ... on the object the mapping holds: the mapping keeps its order
SetValue(d, key, value) ==
    [i \in 1..Len(d) |-> IF d[i].k = key THEN Entry(key, value) ELSE d[i]]

\* items[:index] and items[index:] of a Python list, index >= 0
SliceTo(items, index) == SubSeq(items, 1, Min(index, Len(items)))
SliceFrom(items, index) == SubSeq(items, Min(index, Len(items)) + 1, Len(items))

\* OrderedDict(items): a key seen again keeps its first position and takes the later value
RECURSIVE OrderedDict(_)
OrderedDict(items) ==
    IF items = <<>> THEN <<>>
    ELSE LET n == Len(items)
             front == OrderedDict(SubSeq(items, 1, n - 1))
             last == items[n]
         IN  IF HasKey(front, last.k) THEN SetValue(front, last.k, last.v)
             ELSE Append(front, last)

\* ordered_dict_insert losing the items from index on
ordered_dict_insert_drops_after(d, index, key, value) ==
    OrderedDict(Append(SliceTo(d, index), Entry(key, value)))

\* ordered_dict_insert(d, index, key, value)
ordered_dict_insert(d, index, key, value) ==
    LET before == Append(SliceTo(d, index), Entry(key, value))
        after == SliceFrom(d, index)
    IN  OrderedDict(before \o after)

\* get_ordered_dict_key_index(ordered_dict, target_key): list(keys).index(key), 0-based
get_ordered_dict_key_index(ordered_dict, target_key) == Pos(ordered_dict, target_key) - 1

-----------------------------------------------------------------------------
(* What the host application holds after hou.hipFile.load: the nodes that  *)
(* hou.node("/").allNodes() walks, in walk order.                          *)

HouParm(name, value) == [name |-> name, value |-> value]

HouNode(path, locked, parms) == [path |-> path, locked |-> locked, parms |-> parms]

\* The parameter lists a node at a path can carry.
ParmChoices(path) ==
    CASE path = "/obj/geo1" ->
            { <<>>,
              <<HouParm("tx", IntVal(1))>>,
              <<HouParm("tx", StrVal("1"))>>,
              <<HouParm("tx", IntVal(2))>>,
              <<HouParm("tx", IntVal(1)), HouParm("ty", IntVal(1))>>,
              <<HouParm("ty", IntVal(1)), HouParm("tx", IntVal(2))>> }
      [] path = "/out" -> { <<>>, <<HouParm("tx", IntVal(1))>> }
      [] OTHER -> { <<>> }

HouNodes ==
    UNION { { HouNode(p, FALSE, ps) : ps \in ParmChoices(p) } : p \in Paths }

\* Scenes with a node inside a locked asset (node.isInsideLockedHDA() true).
LockedScenes ==
    { <<HouNode("/out", TRUE, <<>>)>>,
      <<HouNode("/obj", FALSE, <<>>), HouNode("/out", TRUE, <<>>)>> }

\* Scenes: at most MaxNodes nodes, no path twice.
Scenes ==
    LockedScenes \cup
    UNION { { s \in [1..n -> HouNodes] :
                \A i, j \in 1..n : i # j => s[i].path # s[j].path } : n \in 0..MaxNodes }

-----------------------------------------------------------------------------
(* NodeData, as get_hip_data fills it in *)

RECURSIVE AddParms(_, _, _)
AddParms(node_data, parms, j) ==
    IF j > Len(parms) THEN node_data
    ELSE AddParms(
            [node_data EXCEPT !.parms =
                OrderedDict(Append(@, Entry(parms[j].name,
                                            ParamData(parms[j].name, parms[j].value, FalseTag))))],
            parms, j + 1)

LoadedNodeData(node) ==
    AddParms([NodeData(NodeName(node.path)) EXCEPT
                 !.path = node.path,
                 !.type = "type",
                 !.icon = "icon",
                 !.parent_path = ParentPath(node.path)],
             node.parms, 1)

\* get_hip_data(hip_path), given the scene the load leaves in the host application
RECURSIVE WalkNodes(_, _, _)
WalkNodes(scene, i, data_dict) ==
    IF i > Len(scene) THEN data_dict
    ELSE IF scene[i].locked THEN WalkNodes(scene, i + 1, data_dict)
    ELSE WalkNodes(scene, i + 1,
                   OrderedDict(Append(data_dict, Entry(scene[i].path, LoadedNodeData(scene[i])))))

get_hip_data(scene) == WalkNodes(scene, 1, <<>>)

-----------------------------------------------------------------------------
(* HipFileComparator.compare *)

HasParm(node_data, name) == HasKey(node_data.parms, name)

\* NodeData.get_parm_by_name(name), for a name the node has
get_parm_by_name(node_data, name) == Get(node_data.parms, name)

SetParmTag(node_data, name, tag) ==
    [node_data EXCEPT !.parms =
        SetValue(@, name, [get_parm_by_name(node_data, name) EXCEPT !.tag = tag])]

\* The test of line 124 made on the values themselves instead of their string forms
ParmDiffers_by_value(source_parm, target_parm) ==
    \/ source_parm.value.type # target_parm.value.type
    \/ Str(source_parm.value) # Str(target_parm.value)

\* The test of line 124: the string forms of the two values differ.
ParmDiffers(source_parm, target_parm) == Str(source_parm.value) # Str(target_parm.value)

\* The placeholder of lines 110-114 carrying the tag of the other loop
DeletedPlaceholder_tagged_created(path, source_node_data) ==
    [NodeData(path) EXCEPT
        !.parent_path = source_node_data.parent_path,
        !.tag = "created",
        !.name = "",
        !.icon = ""]

\* The placeholder put into target_data for a path only source_data has (lines 110-114).
DeletedPlaceholder(path, source_node_data) ==
    [NodeData(path) EXCEPT
        !.parent_path = source_node_data.parent_path,
        !.tag = "deleted",
        !.name = "",
        !.icon = ""]

\* The placeholder put into source_data for a path only target_data has (lines 133-137).
CreatedPlaceholder(path, target_node_data) ==
    [NodeData(path) EXCEPT
        !.parent_path = target_node_data.parent_path,
        !.tag = "created",
        !.name = "",
        !.icon = ""]

\* Lines 121-126: the parameters of one node both mappings have.  names is the copy of
\* the source node's parameter names the loop walks.  A name the target node lacks ends
\* the comparison with an exception, the tags set so far staying set.
RECURSIVE CompareParms(_, _, _, _)
CompareParms(names, j, source_node_data, target_node_data) ==
    IF j > Len(names)
    THEN [raised |-> "none", source |-> source_node_data, target |-> target_node_data]
    ELSE IF ~HasParm(target_node_data, names[j])
    THEN [raised |-> "ParmLookupError", source |-> source_node_data, target |-> target_node_data]
    ELSE LET source_parm == get_parm_by_name(source_node_data, names[j])
             target_parm == get_parm_by_name(target_node_data, names[j])
         IN  IF ParmDiffers(source_parm, target_parm)
             THEN CompareParms(names, j + 1,
                               SetParmTag(source_node_data, names[j], "edited"),
                               SetParmTag(target_node_data, names[j], "edited"))
             ELSE CompareParms(names, j + 1, source_node_data, target_node_data)

\* Lines 107-126: the loop over source_data (deleted nodes and edited parameters).
RECURSIVE DeletedLoop(_, _, _, _)
DeletedLoop(paths, i, sd, td) ==
    IF i > Len(paths) THEN [raised |-> "none", source_data |-> sd, target_data |-> td]
    ELSE LET path == paths[i]
             source_node_data == Get(sd, path)
         IN  IF ~HasKey(td, path)
             THEN LET new_data == DeletedPlaceholder(path, source_node_data)
                      index == get_ordered_dict_key_index(sd, path)
                  IN  DeletedLoop(paths, i + 1,
                                  SetValue(sd, path, [source_node_data EXCEPT !.tag = "deleted"]),
                                  ordered_dict_insert(td, index, path, new_data))
             ELSE LET r == CompareParms(Keys(source_node_data.parms), 1,
                                        source_node_data, Get(td, path))
                      sd2 == SetValue(sd, path, r.source)
                      td2 == SetValue(td, path, r.target)
                  IN  IF r.raised # "none"
                      THEN [raised |-> r.raised, source_data |-> sd2, target_data |-> td2]
                      ELSE DeletedLoop(paths, i + 1, sd2, td2)

\* Lines 129-142: the loop over target_data (created nodes).
RECURSIVE CreatedLoop(_, _, _, _)
CreatedLoop(paths, i, sd, td) ==
    IF i > Len(paths) THEN [raised |-> "none", source_data |-> sd, target_data |-> td]
    ELSE LET path == paths[i]
         IN  IF HasKey(sd, path) THEN CreatedLoop(paths, i + 1, sd, td)
             ELSE LET new_data == CreatedPlaceholder(path, Get(td, path))
                      index == get_ordered_dict_key_index(td, path)
                  IN  CreatedLoop(paths, i + 1,
                                  ordered_dict_insert(sd, index, path, new_data),
                                  SetValue(td, path, [Get(td, path) EXCEPT !.tag = "created"]))

\* Lines 105-144, from the two loaded mappings on.
CompareLoaded(sd, td) ==
    LET r1 == DeletedLoop(Keys(sd), 1, sd, td)
        r2 == CreatedLoop(Keys(r1.target_data), 1, r1.source_data, r1.target_data)
    IN  IF r1.raised # "none"
        THEN [raised |-> r1.raised, source_data |-> r1.source_data,
              target_data |-> r1.target_data, is_compared |-> FALSE]
        ELSE [raised |-> "none", source_data |-> r2.source_data,
              target_data |-> r2.target_data, is_compared |-> TRUE]

-----------------------------------------------------------------------------
(* HipFileComparator.__init__ and check_file_path.  A file path is a       *)
(* sequence of characters.                                                 *)

SUPPORTED_FILE_FORMATS == << <<"h", "i", "p">>, <<"h", "i", "p", "n", "c">> >>

\* The paths typed into the two file selectors.
FilePaths ==
    { <<>>,
      <<"a">>,
      <<"a", ".", "h", "i", "p">>,
      <<"a", ".", "h", "i", "p", "n", "c">>,
      <<"a", ".", "H", "I", "P">>,
      <<"a", ".", "h", "i", "p", "n">>,
      <<"a", ".", "h", "i", "p", ".", "b">>,
      <<".", "h", "i", "p">>,
      <<"d", ".", "h", "i", "p", "/", "a">> }

\* A file argument: the path and whether os.path.exists(path) holds; "" never exists.
FileArgs == { [path |-> p, exists |-> e] : p \in FilePaths, e \in BOOLEAN } \
            { [path |-> <<>>, exists |-> TRUE] }

\* str.rfind(ch), 0-based, -1 when absent
RFind(p, ch) ==
    IF \E i \in 1..Len(p) : p[i] = ch
    THEN (CHOOSE i \in 1..Len(p) : p[i] = ch /\ \A j \in (i + 1)..Len(p) : p[j] # ch) - 1
    ELSE -1

\* os.path.splitext(path)[1]: the text from the last dot of the last component on,
\* unless that component has only dots before it
SplitExtExtension(p) ==
    LET sepIndex == RFind(p, "/")
        dotIndex == RFind(p, ".")
    IN  IF dotIndex > sepIndex
           /\ \E filenameIndex \in (sepIndex + 1)..(dotIndex - 1) : p[filenameIndex + 1] # "."
        THEN SubSeq(p, dotIndex + 1, Len(p))
        ELSE <<>>

\* extension[1:]
Tail1(ext) == IF ext = <<>> THEN <<>> ELSE Tail(ext)

\* check_file_path accepting every extension that starts with a supported one
check_file_path_prefix(file) ==
    IF ~file.exists THEN "RuntimeError"
    ELSE IF \A k \in 1..Len(SUPPORTED_FILE_FORMATS) :
              LET ext == Tail1(SplitExtExtension(file.path))
                  fmt == SUPPORTED_FILE_FORMATS[k]
              IN  ~(Len(ext) >= Len(fmt) /\ SubSeq(ext, 1, Len(fmt)) = fmt)
    THEN "RuntimeError"
    ELSE "ok"

\* check_file_path(path): "ok" or the exception raised
check_file_path(file) ==
    IF ~file.exists THEN "RuntimeError"
    ELSE IF Tail1(SplitExtExtension(file.path)) \notin Range(SUPPORTED_FILE_FORMATS)
    THEN "RuntimeError"
    ELSE "ok"

\* __init__(source_hip_file, target_hip_file): the checks made, in order, and the outcome
InitChecks(source, target) ==
    IF check_file_path(source) # "ok" THEN <<"source">>
    ELSE <<"source", "target">>

InitRaises(source, target) ==
    IF check_file_path(source) # "ok" THEN check_file_path(source)
    ELSE IF check_file_path(target) # "ok" THEN check_file_path(target)
    ELSE "none"

NoLoad == [source |-> <<>>, target |-> <<>>]

InitComparator ==
    /\ pc = "new"
    /\ args = [source |-> [path |-> <<>>, exists |-> FALSE],
               target |-> [path |-> <<>>, exists |-> FALSE]]
    /\ source_hip_file = <<>>
    /\ target_hip_file = <<>>
    /\ source_data = <<>>
    /\ target_data = <<>>
    /\ diff_data = <<>>
    /\ is_compared = FALSE
    /\ checked = <<>>
    /\ raised = "none"
    /\ loaded = NoLoad

\* HipFileComparator(source, target)
ConstructWith(source, target) ==
    /\ args' = [source |-> source, target |-> target]
    /\ checked' = InitChecks(source, target)
    /\ raised' = InitRaises(source, target)
    /\ IF InitRaises(source, target) # "none"
       THEN /\ pc' = "raised"
            /\ UNCHANGED <<source_hip_file, target_hip_file, source_data, target_data,
                           diff_data, is_compared>>
       ELSE /\ pc' = "constructed"
            /\ source_hip_file' = source.path
            /\ target_hip_file' = target.path
            /\ source_data' = <<>>
            /\ target_data' = <<>>
            /\ diff_data' = <<>>
            /\ is_compared' = FALSE
    /\ UNCHANGED loaded

Construct ==
    /\ pc = "new"
    /\ \E source, target \in FileArgs : ConstructWith(source, target)
    /\ UNCHANGED windowVars

\* compare() from line 102 on, the two loads succeeding
CompareWith(source_scene, target_scene) ==
    /\ LET sd == get_hip_data(source_scene)
           td == get_hip_data(target_scene)
           r == CompareLoaded(sd, td)
       IN  /\ loaded' = [source |-> sd, target |-> td]
           /\ source_data' = r.source_data
           /\ target_data' = r.target_data
           /\ is_compared' = r.is_compared
           /\ raised' = r.raised
           /\ pc' = IF r.raised = "none" THEN "compared" ELSE "failed"
    /\ UNCHANGED <<args, source_hip_file, target_hip_file, diff_data, checked>>

\* compare(): lines 96-100 let it through only with both file names set
Compare ==
    /\ pc = "constructed"
    /\ source_hip_file # <<>>
    /\ target_hip_file # <<>>
    /\ \E source_scene, target_scene \in Scenes : CompareWith(source_scene, target_scene)
    /\ UNCHANGED windowVars

\* compare(), hou.hipFile.load raising for the source file
CompareSourceLoadFails ==
    /\ pc = "constructed"
    /\ source_hip_file # <<>>
    /\ target_hip_file # <<>>
    /\ raised' = "LoadError"
    /\ pc' = "failed"
    /\ UNCHANGED <<args, source_hip_file, target_hip_file, source_data, target_data,
                   diff_data, is_compared, checked, loaded>>
    /\ UNCHANGED windowVars

\* compare(), hou.hipFile.load raising for the target file
CompareTargetLoadFails ==
    /\ pc = "constructed"
    /\ source_hip_file # <<>>
    /\ target_hip_file # <<>>
    /\ \E source_scene \in Scenes :
          /\ source_data' = get_hip_data(source_scene)
          /\ loaded' = [source |-> get_hip_data(source_scene), target |-> <<>>]
    /\ raised' = "LoadError"
    /\ pc' = "failed"
    /\ UNCHANGED <<args, source_hip_file, target_hip_file, target_data,
                   diff_data, is_compared, checked>>
    /\ UNCHANGED windowVars

-----------------------------------------------------------------------------
(* HipFileDiffWindow: the Compare button *)

Views == {"source", "target"}

OtherView(view) == IF view = "source" THEN "target" ELSE "source"

NoComparator ==
    [set |-> FALSE, id |-> 0, source_hip_file |-> <<>>, target_hip_file |-> <<>>,
     source_data |-> <<>>, target_data |-> <<>>, is_compared |-> FALSE]

\* The object HipFileComparator(source, target) returns, made by click number id.
NewComparator(id, source, target) ==
    [set |-> TRUE, id |-> id, source_hip_file |-> source.path, target_hip_file |-> target.path,
     source_data |-> <<>>, target_data |-> <<>>, is_compared |-> FALSE]

\* What a Compare click can find in the two line edits.
WindowFileArgs ==
    { [path |-> <<"a", ".", "h", "i", "p">>, exists |-> TRUE],
      [path |-> <<"a", ".", "h", "i", "p">>, exists |-> FALSE],
      [path |-> <<"a", ".", "H", "I", "P">>, exists |-> TRUE] }

\* What the two files of a Compare click can hold.
WindowScenes ==
    { <<HouNode("/obj/geo1", FALSE, <<HouParm("tx", IntVal(1))>>), HouNode("/out", FALSE, <<>>)>>,
      <<HouNode("/obj", FALSE, <<>>), HouNode("/obj/geo1", FALSE, <<HouParm("tx", IntVal(2))>>)>>,
      <<HouNode("/obj/geo1", FALSE,
                <<HouParm("tx", IntVal(1)), HouParm("ty", IntVal(1))>>)>> }

Snapshot ==
    [source_model |-> source_model, target_model |-> target_model,
     source_items |-> source_items, target_items |-> target_items,
     hip_comparator |-> hip_comparator]

\* Lines 330-336: a path that does not exist; the warning is shown and nothing else done.
ClickInvalidPaths(source, target) ==
    /\ ~(source.exists /\ target.exists)
    /\ last_click' = "warning"
    /\ UNCHANGED <<hip_comparator, source_model, target_model, source_items, target_items,
                   expandVars>>

\* The constructor called, and raising, before anything is cleared
ClickConstructorRaises_before_clear(source, target) ==
    /\ source.exists /\ target.exists
    /\ InitRaises(source, target) # "none"
    /\ last_click' = InitRaises(source, target)
    /\ UNCHANGED <<hip_comparator, source_model, target_model, source_items, target_items>>

\* Lines 338-346: both models and item dictionaries are cleared, then the constructor raises.
ClickConstructorRaises(source, target) ==
    /\ source.exists /\ target.exists
    /\ InitRaises(source, target) # "none"
    /\ source_model' = <<>>
    /\ source_items' = {}
    /\ target_model' = <<>>
    /\ target_items' = {}
    /\ last_click' = InitRaises(source, target)
    /\ UNCHANGED hip_comparator

\* Lines 338-347: cleared, the new comparator assigned, then compare() raises; sd and td
\* are what the comparator holds when it does.
ClickCompareRaises(source, target, sd, td, exception) ==
    /\ source.exists /\ target.exists
    /\ InitRaises(source, target) = "none"
    /\ source_model' = <<>>
    /\ source_items' = {}
    /\ target_model' = <<>>
    /\ target_items' = {}
    /\ hip_comparator' =
          [NewComparator(clicks + 1, source, target) EXCEPT
              !.source_data = sd, !.target_data = td]
    /\ last_click' = exception

\* Lines 338-359: the comparison completes and both models are populated with its data.
ClickCompletes(source, target, r) ==
    /\ source.exists /\ target.exists
    /\ InitRaises(source, target) = "none"
    /\ r.raised = "none"
    /\ hip_comparator' =
          [NewComparator(clicks + 1, source, target) EXCEPT
              !.source_data = r.source_data, !.target_data = r.target_data,
              !.is_compared = r.is_compared]
    /\ source_model' = r.source_data
    /\ source_items' = KeySet(r.source_data)
    /\ target_model' = r.target_data
    /\ target_items' = KeySet(r.target_data)
    /\ last_click' = "done"

\* handle_compare_button_click
HandleCompareButtonClick ==
    /\ clicks < MaxClicks
    /\ expand_signal = <<>>
    /\ clicks' = clicks + 1
    /\ held_before' = Snapshot
    /\ \E source, target \in WindowFileArgs :
          \/ ClickInvalidPaths(source, target)
          \/ /\ ClickConstructorRaises(source, target)
             /\ expanded' = [view \in Views |-> {}]
             /\ UNCHANGED <<expand_signal, expand_chain>>
          \/ /\ \/ ClickCompareRaises(source, target, <<>>, <<>>, "LoadError")
                \/ \E source_scene \in WindowScenes :
                      ClickCompareRaises(source, target, get_hip_data(source_scene), <<>>,
                                         "LoadError")
                \/ \E source_scene, target_scene \in WindowScenes :
                      LET r == CompareLoaded(get_hip_data(source_scene),
                                             get_hip_data(target_scene))
                      IN  \/ /\ r.raised # "none"
                             /\ ClickCompareRaises(source, target, r.source_data,
                                                   r.target_data, r.raised)
                          \/ ClickCompletes(source, target, r)
             /\ expanded' = [view \in Views |-> {}]
             /\ UNCHANGED <<expand_signal, expand_chain>>
    /\ UNCHANGED <<comparatorVars, checkboxVars, scrollVars>>

-----------------------------------------------------------------------------
(* HipFileDiffWindow: the "Show only edited nodes" checkbox *)

\* on_checkbox_toggled(state), state == Qt.Checked (lines 369-376)
ToggleCheckedCalls ==
    << "source_model.show_only_edited",
       "target_model.show_only_edited",
       "source.capture_tree_state",
       "target.capture_tree_state",
       "source.reset_proxy_view",
       "target.reset_proxy_view" >>

\* Lines 378-385 with the tree state restored before the proxy views are reset
ToggleUncheckedCalls_restore_first ==
    << "source_model.show_only_edited",
       "target_model.show_only_edited",
       "source.restore_tree_state",
       "target.restore_tree_state",
       "source.reset_proxy_view",
       "target.reset_proxy_view" >>

\* on_checkbox_toggled(state), any other state (lines 378-385)
ToggleUncheckedCalls ==
    << "source_model.show_only_edited",
       "target_model.show_only_edited",
       "source.reset_proxy_view",
       "target.reset_proxy_view",
       "source.restore_tree_state",
       "target.restore_tree_state" >>

\* The user toggles the checkbox; stateChanged delivers the new state to on_checkbox_toggled.
OnCheckboxToggled ==
    /\ expand_signal = <<>>
    /\ checkbox' = ~checkbox
    /\ IF checkbox'
       THEN /\ show_only_edited' = [view \in Views |-> TRUE]
            /\ toggle_calls' = ToggleCheckedCalls
       ELSE /\ show_only_edited' = [view \in Views |-> FALSE]
            /\ toggle_calls' = ToggleUncheckedCalls
    /\ UNCHANGED <<comparatorVars, clickVars, expandVars, scrollVars>>

-----------------------------------------------------------------------------
(* HipFileDiffWindow: expansion of the two tree views *)

ItemsOf(view) == IF view = "source" THEN source_items ELSE target_items

ExpandSignal(view, path, expand) == [view |-> view, path |-> path, expand |-> expand]

\* The user expands or collapses an item of a view; the view emits expanded or collapsed.
UserExpand ==
    /\ expand_signal = <<>>
    /\ \E view \in Views, expand \in BOOLEAN : \E path \in ItemsOf(view) :
          /\ (path \in expanded[view]) # expand
          /\ expanded' = [expanded EXCEPT ![view] =
                             IF expand THEN @ \cup {path} ELSE @ \ {path}]
          /\ expand_signal' = <<ExpandSignal(view, path, expand)>>
    /\ expand_chain' = 0
    /\ UNCHANGED <<comparatorVars, clickVars, checkboxVars, scrollVars>>

\* sync_expand acting on the view the signal came from
SyncExpandSameView(view) == view

\* The view sync_expand acts on: the one the signal did not come from (lines 402-405).
SyncExpandOtherView(view) == OtherView(view)

\* sync_expand(index, expand), called for the oldest undelivered signal: setExpanded on
\* the item with the same path in the other view, which emits in turn when its state
\* changes and does nothing for an item the other model lacks.
SyncExpand ==
    /\ expand_signal # <<>>
    /\ LET signal == Head(expand_signal)
           other_view == SyncExpandOtherView(signal.view)
           found == signal.path \in ItemsOf(other_view)
           changes == found /\ ((signal.path \in expanded[other_view]) # signal.expand)
       IN  /\ expanded' =
                 IF changes
                 THEN [expanded EXCEPT ![other_view] =
                          IF signal.expand THEN @ \cup {signal.path} ELSE @ \ {signal.path}]
                 ELSE expanded
           /\ expand_signal' =
                 IF changes
                 THEN Append(Tail(expand_signal),
                             ExpandSignal(other_view, signal.path, signal.expand))
                 ELSE Tail(expand_signal)
    /\ expand_chain' = expand_chain + 1
    /\ UNCHANGED <<comparatorVars, clickVars, checkboxVars, scrollVars>>

-----------------------------------------------------------------------------
(* HipFileDiffWindow: the two vertical scrollbars *)

ScrollSignal(view, value) == [view |-> view, value |-> value]

\* QScrollBar.setValue(value): the value is clamped to the range
Clamp(value, maximum) == IF value > maximum THEN maximum ELSE IF value < 0 THEN 0 ELSE value

\* The user scrolls a view; its scrollbar emits valueChanged.
UserScroll ==
    /\ scroll_signal = <<>>
    /\ \E view \in Views : \E value \in 0..scroll[view].max :
          /\ value # scroll[view].value
          /\ scroll' = [scroll EXCEPT ![view].value = value]
          /\ scroll_signal' = <<ScrollSignal(view, value)>>
    /\ scroll_chain' = 0
    /\ UNCHANGED <<comparatorVars, clickVars, checkboxVars, expandVars>>

\* The scrollbar sync_scroll sets: the one that did not send the signal (lines 431-437).
SyncScrollTarget(view) == OtherView(view)

\* sync_scroll(value), called for the oldest undelivered signal: setValue on the other
\* scrollbar, which emits valueChanged when its clamped value differs from the one it holds.
SyncScroll ==
    /\ scroll_signal # <<>>
    /\ LET signal == Head(scroll_signal)
           target_scrollbar == SyncScrollTarget(signal.view)
           value == Clamp(signal.value, scroll[target_scrollbar].max)
           changes == value # scroll[target_scrollbar].value
       IN  /\ scroll' = [scroll EXCEPT ![target_scrollbar].value = value]
           /\ scroll_signal' =
                 IF changes
                 THEN Append(Tail(scroll_signal), ScrollSignal(target_scrollbar, value))
                 ELSE Tail(scroll_signal)
    /\ scroll_chain' = scroll_chain + 1
    /\ UNCHANGED <<comparatorVars, clickVars, checkboxVars, expandVars>>

-----------------------------------------------------------------------------
(* Specifications *)

InitWindow ==
    /\ hip_comparator = NoComparator
    /\ source_model = <<>>
    /\ target_model = <<>>
    /\ source_items = {}
    /\ target_items = {}
    /\ clicks = 0
    /\ last_click = "none"
    /\ held_before = [source_model |-> <<>>, target_model |-> <<>>,
                 source_items |-> {}, target_items |-> {},
                 hip_comparator |-> NoComparator]
    /\ checkbox = FALSE
    /\ show_only_edited = [view \in Views |-> FALSE]
    /\ toggle_calls = <<>>
    /\ expanded = [view \in Views |-> {}]
    /\ expand_signal = <<>>
    /\ expand_chain = 0
    /\ scroll_signal = <<>>
    /\ scroll_chain = 0

Init ==
    /\ InitComparator
    /\ InitWindow
    /\ scroll = [view \in Views |-> [value |-> 0, max |-> 0]]

\* The window with its trees laid out: each scrollbar has some range.
InitScroll ==
    /\ InitComparator
    /\ InitWindow
    /\ \E source_max, target_max \in 0..MaxScroll :
          scroll = [view \in Views |->
                       [value |-> 0,
                        max |-> IF view = "source" THEN source_max ELSE target_max]]

\* The comparator on its own
Next ==
    \/ Construct
    \/ Compare
    \/ CompareSourceLoadFails
    \/ CompareTargetLoadFails

Spec == Init /\ [][Next]_vars

\* The window: Compare clicks and the checkbox
NextWindow ==
    \/ HandleCompareButtonClick
    \/ OnCheckboxToggled

SpecWindow == Init /\ [][NextWindow]_vars

\* The window: Compare clicks and the expansion of the trees
NextExpand ==
    \/ HandleCompareButtonClick
    \/ UserExpand
    \/ SyncExpand

SpecExpand == Init /\ [][NextExpand]_vars

\* The window: the scrollbars
NextScroll ==
    \/ UserScroll
    \/ SyncScroll

SpecScroll == InitScroll /\ [][NextScroll]_vars

-----------------------------------------------------------------------------
(* Properties of the comparator *)

SourcePaths == KeySet(loaded.source)
TargetPaths == KeySet(loaded.target)
SourceOnly == SourcePaths \ TargetPaths
TargetOnly == TargetPaths \ SourcePaths
CommonPaths == SourcePaths \cap TargetPaths

NoKeyTwice(d) == Cardinality(KeySet(d)) = Len(d)

\* C1: when compare() returns normally, the keys of source_data and the keys of
\* target_data are both exactly the union of the paths of the two loaded inputs.
C1_KeysAreUnion ==
    pc = "compared" =>
        /\ KeySet(source_data) = SourcePaths \cup TargetPaths
        /\ KeySet(target_data) = SourcePaths \cup TargetPaths
        /\ NoKeyTwice(source_data)
        /\ NoKeyTwice(target_data)

C1_Witness ==
    /\ pc = "compared"
    /\ SourceOnly # {}
    /\ TargetOnly # {}
    /\ CommonPaths # {}

\* C2: after compare() returns, every placeholder has, in the mapping it was inserted
\* into, the index the real entry for the same path has in the other mapping.
C2_PlaceholdersAligned ==
    pc = "compared" =>
        /\ \A path \in SourceOnly : Pos(target_data, path) = Pos(source_data, path)
        /\ \A path \in TargetOnly : Pos(source_data, path) = Pos(target_data, path)

\* C3: after compare() returns, a path only the source input has carries "deleted" on
\* both sides, a path only the target input has carries "created" on both sides, and a
\* path both inputs have carries neither.
C3_CreatedDeletedTags ==
    pc = "compared" =>
        /\ \A path \in SourceOnly :
              /\ Get(source_data, path).tag = "deleted"
              /\ Get(target_data, path).tag = "deleted"
        /\ \A path \in TargetOnly :
              /\ Get(source_data, path).tag = "created"
              /\ Get(target_data, path).tag = "created"
        /\ \A path \in CommonPaths :
              /\ Get(source_data, path).tag \notin {"created", "deleted"}
              /\ Get(target_data, path).tag \notin {"created", "deleted"}

C3_Witness ==
    /\ pc = "compared"
    /\ SourceOnly # {}
    /\ TargetOnly # {}
    /\ CommonPaths # {}
    /\ \E path \in SourceOnly : Get(target_data, path).tag = "deleted"
    /\ \E path \in TargetOnly : Get(source_data, path).tag = "created"

\* The parameter names the two loaded nodes at a path both have.
CommonParms(path) ==
    KeySet(Get(loaded.source, path).parms) \cap KeySet(Get(loaded.target, path).parms)

LoadedParmDiffers(path, name) ==
    Str(get_parm_by_name(Get(loaded.source, path), name).value)
        # Str(get_parm_by_name(Get(loaded.target, path), name).value)

\* C4: after compare() returns, a node both inputs have carries the node tag "edited"
\* in both mappings when one of its parameters differs between the inputs, and has its
\* node tag unset when none differs.
C4_NodeTagEdited ==
    pc = "compared" =>
        \A path \in CommonPaths :
            IF \E name \in CommonParms(path) : LoadedParmDiffers(path, name)
            THEN /\ Get(source_data, path).tag = "edited"
                 /\ Get(target_data, path).tag = "edited"
            ELSE /\ Get(source_data, path).tag = UnsetTag
                 /\ Get(target_data, path).tag = UnsetTag

\* The file arguments the constructor is to accept: an existing "a.hip" or "a.hipnc".
Acceptable(file) ==
    /\ file.exists
    /\ file.path \in { <<"a", ".", "h", "i", "p">>, <<"a", ".", "h", "i", "p", "n", "c">> }

\* C5: the constructor raises RuntimeError and assigns no field whenever either path
\* does not exist or has an extension other than "hip" or "hipnc", the source path
\* being checked first; otherwise the object has is_compared = False and empty
\* source_data, target_data and diff_data.
C5_Constructor ==
    /\ pc = "raised" =>
          /\ ~Acceptable(args.source) \/ ~Acceptable(args.target)
          /\ raised = "RuntimeError"
          /\ checked = IF Acceptable(args.source) THEN <<"source", "target">> ELSE <<"source">>
          /\ source_hip_file = <<>> /\ target_hip_file = <<>>
          /\ source_data = <<>> /\ target_data = <<>> /\ diff_data = <<>>
          /\ is_compared = FALSE
    /\ pc = "constructed" =>
          /\ Acceptable(args.source) /\ Acceptable(args.target)
          /\ raised = "none"
          /\ checked = <<"source", "target">>
          /\ source_hip_file = args.source.path /\ target_hip_file = args.target.path
          /\ source_data = <<>> /\ target_data = <<>> /\ diff_data = <<>>
          /\ is_compared = FALSE

C5_Witness ==
    /\ pc = "raised"
    /\ Acceptable(args.source)
    /\ args.target.exists
    /\ args.target.path = <<"a", ".", "h", "i", "p", "n">>

ParmTag(d, path, name) == get_parm_by_name(Get(d, path), name).tag

NoParmEdited(node_data) ==
    \A j \in 1..Len(node_data.parms) : node_data.parms[j].v.tag # "edited"

-----------------------------------------------------------------------------
(* Properties of the window *)

\* C7: the valueChanged -> sync_scroll -> setValue cascade stops after finitely many
\* steps, and when it has stopped both scrollbars hold the same value, also when the
\* receiving scrollbar clamps the value it is given.
C7_ScrollSynchronized ==
    /\ scroll_chain <= 3
    /\ scroll_signal = <<>> => scroll["source"].value = scroll["target"].value

\* The cascade on its own: never more than three sync_scroll calls per user scroll.
ScrollCascadeEnds == scroll_chain <= 3 /\ Len(scroll_signal) <= 1

\* C8: sync_expand gives the item with the same path in the other view the state of
\* the event; the signal that comes back changes nothing, so the chain ends after at
\* most two sync_expand calls, and whenever no signal is left every path has the same
\* expansion state in both views.
C8_ExpansionMirrored ==
    /\ expand_chain <= 2
    /\ Len(expand_signal) <= 1
    /\ \A i \in 1..Len(expand_signal) :
          LET signal == expand_signal[i]
          IN  /\ (signal.path \in expanded[signal.view]) = signal.expand
              /\ expand_chain = 1 =>
                    (signal.path \in expanded[OtherView(signal.view)]) = signal.expand
    /\ expand_signal = <<>> => expanded["source"] = expanded["target"]

\* An expansion mirrored and its chain run to the end, next to a collapsed item.
C8_Witness ==
    /\ expand_signal = <<>>
    /\ expand_chain = 2
    /\ expanded["target"] # {}
    /\ expanded["target"] # target_items
    /\ hip_comparator.is_compared

IndexOf(calls, name) == CHOOSE i \in 1..Len(calls) : calls[i] = name

Precedes(calls, first, second) ==
    /\ first \in Range(calls)
    /\ second \in Range(calls)
    /\ IndexOf(calls, first) < IndexOf(calls, second)

\* C9: after any toggles of the checkbox the show_only_edited of both models equal
\* whether it is checked; checking captures the tree state of both views before either
\* proxy view is reset, unchecking restores both only after both are reset.
C9_CheckboxToggles ==
    toggle_calls # <<>> =>
        /\ show_only_edited["source"] = checkbox
        /\ show_only_edited["target"] = checkbox
        /\ checkbox =>
              \A view \in Views, reset_view \in Views :
                  Precedes(toggle_calls, view \o ".capture_tree_state",
                           reset_view \o ".reset_proxy_view")
        /\ ~checkbox =>
              \A view \in Views, reset_view \in Views :
                  Precedes(toggle_calls, reset_view \o ".reset_proxy_view",
                           view \o ".restore_tree_state")

\* The checkbox checked and unchecked again with a comparison on display.
C9_Witness ==
    /\ ~checkbox
    /\ toggle_calls # <<>>
    /\ source_model # <<>>

Cleared ==
    /\ source_model = <<>> /\ target_model = <<>>
    /\ source_items = {} /\ target_items = {}

\* C10 as claimed: a Compare click that does not end in a completed comparison leaves
\* both tree models, both item dictionaries and hip_comparator as they were.
C10_FailedClickChangesNothing ==
    last_click \notin {"none", "done"} => Snapshot = held_before

\* C10 amended: only the click rejected for a path that does not exist changes nothing.
\* A click on which the constructor raises leaves hip_comparator as it was and both
\* models and both item dictionaries empty; a click on which compare() raises leaves
\* them empty too and hip_comparator a new comparator that is not compared.
C10_FailedClick ==
    /\ last_click = "warning" => Snapshot = held_before
    /\ last_click = "RuntimeError" =>
          /\ Cleared
          /\ hip_comparator = held_before.hip_comparator
    /\ last_click \in {"LoadError", "ParmLookupError"} =>
          /\ Cleared
          /\ hip_comparator.set
          /\ hip_comparator.id = clicks
          /\ hip_comparator # held_before.hip_comparator
          /\ ~hip_comparator.is_compared

\* A click failing on the extension with a completed comparison on display.
C10_Witness ==
    /\ last_click = "RuntimeError"
    /\ held_before.source_model # <<>>
    /\ held_before.hip_comparator.is_compared

====
